---- MODULE Spec2Model ----
(***************************************************************************)
(* Model of the streaming chat completion of AI-Study-Buddy:               *)
(* getChatCompletion (src/src/lib/groq.ts) reading a newline-delimited     *)
(* event stream, batching the fragments and handing them to the onChunk    *)
(* callback of ChatProvider.sendMessage (src/unnamed/part_001).            *)
(*                                                                         *)
(* Text is a sequence of one-character strings.  The wire is a sequence of *)
(* bytes.  The fixed ASCII pieces of a record are single tokens:           *)
(*   "data: "   the event prefix                                           *)
(*   "[DONE]"   the sentinel payload                                       *)
(*   "{c:"      {"choices":[{"delta":{"content":"                          *)
(*   ":null}"   "},"index":0,"finish_reason":null}]}                       *)
(*   ":stop}"   "},"index":0,"finish_reason":"stop"}]}                     *)
(*   "LF" "CR" "SP"   newline, carriage return, space                      *)
(*   "C3" "A9"  the two UTF-8 bytes of U+00E9, decoded to the char "E9"    *)
(*   "FFFD"     the replacement character U+FFFD                           *)
(***************************************************************************)
EXTENDS Integers, Sequences, FiniteSets, TLC

VARIABLES
    pc,                 \* position of the getChatCompletion call
    records,            \* the lines the completion service sends
    wire,               \* the response body, as bytes
    pos,                \* number of bytes handed out by reader.read so far
    buffer,             \* groq.ts:109 line buffer
    lines,              \* groq.ts:120 lines of the for loop still to process
    accumulatedChunks,  \* groq.ts:111 pending text
    fullResponse,       \* groq.ts:110 text flushed so far
    chunks,             \* arguments of the onChunk calls, in call order
    shown,              \* part_001:153 fullResponse of sendMessage
    updates,            \* contents given to the assistant message, in order
    received,           \* non-empty fragments extracted at groq.ts:131
    seen,               \* trimmed lines the for loop has handled
    doneSeen,           \* a line `data: [DONE]` has been read
    lateParsed,         \* a line was JSON-parsed after `data: [DONE]`
    lateAdded,          \* a fragment of such a line was added to the pending text
    lateEmitted,        \* ... and handed to onChunk
    outcomes,           \* settlements of the returned promise
    failure,            \* what made the call throw
    fetches,            \* number of requests issued at groq.ts:80
    caller,             \* who called getChatCompletion
    sendPc,             \* position of sendMessage / getCompletionSync
    messages,           \* part_001:62 the message list of ChatProvider
    isLoading,          \* part_001:63
    assistantId,        \* part_001:119 id of the placeholder of the reply
    now,                \* Date.now()
    mounted,            \* ChatProvider is mounted
    cancelled,          \* the user left while the response was in flight
    chunksAtCancel,     \* number of onChunk calls made when the user left
    result,             \* groq.ts:168 text gathered by getCompletionSync
    syncReturned,       \* <<text>> once getCompletionSync has returned
    two,                \* two concurrent calls (specification TwoSpec)
    apiMessages,        \* part_001:142-151 the list given to getChatCompletion
    requests,           \* number of sendMessage calls started
    ignored,            \* number of submits that returned at part_001:567
    auth                \* authStore.ts the auth store and its provider

vars == <<pc, records, wire, pos, buffer, lines, accumulatedChunks, fullResponse,
          chunks, shown, updates, received, seen, doneSeen, lateParsed,
          lateAdded, lateEmitted, outcomes, failure, fetches, caller, sendPc,
          messages, isLoading, assistantId, now, mounted, cancelled,
          chunksAtCancel, result, syncReturned, two, apiMessages, requests,
          ignored, auth>>

\* ------------------------------------------------------------------ bounds

\* longest stream, in lines, that the service sends (besides the scenarios)
MaxLines == 3

\* latest time, in ms, on the clock of the page
MaxElapsed == 2

\* size in bytes of the network chunks of the two concurrent calls (a read
\* returns that many bytes, or all that is left)
CutLen == 3

\* most requests the user sends from one page (specification PageSpec)
MaxRequests == 2

\* most submits made while a request is in flight
MaxIgnored == 1

\* most auth-state-change events waiting to be delivered
MaxEvents == 2

\* ------------------------------------------------------- program constants

\* groq.ts:135 accumulatedChunks.length >= 4
FlushThreshold == 4

\* ----------------------------------------------------------------- helpers

RECURSIVE Flatten(_)
Flatten(ss) == IF ss = <<>> THEN <<>> ELSE Head(ss) \o Flatten(Tail(ss))

SeqsUpTo(S, n) == UNION { [1..k -> S] : k \in 0..n }

\* ----------------------------------------------------------- wire encoding

Whitespace == {"SP", "CR", "LF"}

\* UTF-8 encoding of a text: U+00E9 takes two bytes, U+FFFD would take three
\* (never sent), every other character of the model is one ASCII byte.
RECURSIVE Utf8Encode(_)
Utf8Encode(t) ==
    IF t = <<>> THEN <<>>
    ELSE (IF Head(t) = "E9" THEN <<"C3", "A9">> ELSE <<Head(t)>>)
         \o Utf8Encode(Tail(t))

\* A data record with the given delta.content and finish_reason.
Rec(content, finish) == [kind |-> "rec", content |-> content, finish |-> finish]
DoneLine == [kind |-> "done", content |-> <<>>, finish |-> "null"]
BadLine == [kind |-> "bad", content |-> <<>>, finish |-> "null"]
BlankLine == [kind |-> "blank", content |-> <<>>, finish |-> "null"]

\* The bytes of one line, without its newline.
EncodeLine(r) ==
    CASE r.kind = "rec" ->
            <<"data: ", "{c:">> \o Utf8Encode(r.content)
            \o <<IF r.finish = "stop" THEN ":stop}" ELSE ":null}">>
      [] r.kind = "done" -> <<"data: ", "[DONE]", "CR">>
      [] r.kind = "bad" -> <<"data: ", "{c:">>
      [] r.kind = "blank" -> <<"SP">>

\* The response body: the lines, newline-separated; `terminated` says whether
\* the last line is followed by a newline before the stream ends.
RECURSIVE EncodeStream(_, _)
EncodeStream(rs, terminated) ==
    IF rs = <<>> THEN <<>>
    ELSE EncodeLine(Head(rs))
         \o (IF Len(rs) > 1 \/ terminated THEN <<"LF">> ELSE <<>>)
         \o EncodeStream(Tail(rs), terminated)

\* The lines the service may send.
LineKinds ==
    { Rec(<<"a", "b">>, "null"), Rec(<<"E9">>, "null"),
      Rec(<<"a">>, "stop"), Rec(<<>>, "stop"),
      DoneLine, BadLine, BlankLine }

\* spec.md section 8, end-to-end scenario
ScenarioHi ==
    << Rec(<<"H", "i">>, "null"),
       Rec(<<"SP", "t", "h", "e", "r", "e">>, "stop"),
       DoneLine >>

\* spec.md section 8, threshold behaviour
ScenarioABCDE ==
    << Rec(<<"a">>, "null"), Rec(<<"b">>, "null"), Rec(<<"c">>, "null"),
       Rec(<<"d">>, "null"), Rec(<<"e">>, "null") >>

Streams == SeqsUpTo(LineKinds, MaxLines) \cup {ScenarioHi, ScenarioABCDE}

\* The streams of the specification ChatSpec, where the user acts meanwhile.
ChatStreams ==
    { <<>>,
      ScenarioHi,
      << BadLine, Rec(<<>>, "stop"), Rec(<<"a">>, "stop") >>,
      << Rec(<<"a", "b">>, "null"), Rec(<<"a", "b">>, "null"),
         Rec(<<"a">>, "null") >> }

\* The streams of the specification PageSpec, with several requests.
PageStreams ==
    { << Rec(<<"a">>, "stop"), DoneLine >>,
      << Rec(<<"a", "b">>, "null"), Rec(<<"a", "b">>, "null"),
         Rec(<<"a">>, "null") >> }

\* The streams of the specification TwoSpec, with two calls at a time.
TwoStreams ==
    { << Rec(<<"a">>, "stop") >>,
      << Rec(<<"E9">>, "null"), Rec(<<"a">>, "stop") >>,
      << Rec(<<"a", "b">>, "null"), Rec(<<"a", "b">>, "null"),
         Rec(<<"a">>, "null") >> }

\* ------------------------------------------------- pure parts of the code

\* groq.ts:108,117 new TextDecoder().decode(value), without {stream: true}:
\* each chunk is decoded on its own, so a lead byte with no continuation byte
\* after it in the chunk, and a continuation byte with no lead byte before it,
\* each become U+FFFD.
RECURSIVE decode(_)
decode(bytes) ==
    IF bytes = <<>> THEN <<>>
    ELSE IF Head(bytes) = "C3"
         THEN IF Len(bytes) >= 2 /\ bytes[2] = "A9"
              THEN <<"E9">> \o decode(SubSeq(bytes, 3, Len(bytes)))
              ELSE <<"FFFD">> \o decode(Tail(bytes))
         ELSE IF Head(bytes) = "A9"
              THEN <<"FFFD">> \o decode(Tail(bytes))
              ELSE <<Head(bytes)>> \o decode(Tail(bytes))

\* groq.ts:120 buffer.split('\n'): the pieces between newlines, at least one.
RECURSIVE split(_)
split(text) ==
    IF \A i \in 1..Len(text) : text[i] # "LF" THEN <<text>>
    ELSE LET i == CHOOSE k \in 1..Len(text) :
                      /\ text[k] = "LF"
                      /\ \A j \in 1..(k - 1) : text[j] # "LF"
         IN <<SubSeq(text, 1, i - 1)>> \o split(SubSeq(text, i + 1, Len(text)))

\* groq.ts:124 line.trim()
RECURSIVE trim(_)
trim(line) ==
    IF line = <<>> THEN <<>>
    ELSE IF Head(line) \in Whitespace THEN trim(Tail(line))
    ELSE IF line[Len(line)] \in Whitespace
         THEN trim(SubSeq(line, 1, Len(line) - 1))
         ELSE line

\* groq.ts:125 the sentinel
DONE == <<"data: ", "[DONE]">>

\* groq.ts:128 trimmedLine.replace(/^data: /, '')
stripPrefix(line) ==
    IF line # <<>> /\ Head(line) = "data: " THEN Tail(line) ELSE line

\* The characters a JSON string of the stream may hold.
ContentChars ==
    {"a", "b", "c", "d", "e", "H", "i", "t", "h", "r", "SP", "E9", "FFFD"}

\* groq.ts:129-131 JSON.parse and data.choices[0]?.delta?.content || '':
\* ok = FALSE when JSON.parse throws.
JSONparse(jsonStr) ==
    IF /\ Len(jsonStr) >= 2
       /\ jsonStr[1] = "{c:"
       /\ jsonStr[Len(jsonStr)] \in {":null}", ":stop}"}
       /\ \A i \in 2..(Len(jsonStr) - 1) : jsonStr[i] \in ContentChars
    THEN [ok |-> TRUE,
          content |-> SubSeq(jsonStr, 2, Len(jsonStr) - 1),
          finish_reason |-> IF jsonStr[Len(jsonStr)] = ":stop}" THEN "stop" ELSE "null"]
    ELSE [ok |-> FALSE, content |-> <<>>, finish_reason |-> "null"]

\* groq.ts:125 lines the loop passes over
Skipped(trimmedLine) == trimmedLine = <<>> \/ trimmedLine = DONE

\* Mutant of FlushDue: the threshold is compared with > instead of >=.
FlushDue_Strict(acc, finish_reason) ==
    Len(acc) > FlushThreshold \/ finish_reason = "stop"

\* Mutant of FlushDue: every fragment is flushed as it comes, the threshold
\* is not looked at.
FlushDue_AnyLength(acc, finish_reason) ==
    Len(acc) >= 1 \/ finish_reason = "stop"

\* groq.ts:135 the flush condition
FlushDue(acc, finish_reason) ==
    Len(acc) >= FlushThreshold \/ finish_reason = "stop"

\* ------------------------------------------------------------------ state

\* Message ids: Date.now().toString(), or that with the prefix 'welcome-'.
Id(prefix, t) == [prefix |-> prefix, t |-> t]
NoId == Id("none", 0)

\* part_001:36-44 a message of the list
Message(id, role, content) == [id |-> id, role |-> role, content |-> content]

\* part_001:73-83 the welcome message added by the mount effect
WelcomeMessage == Message(Id("welcome-", 0), "assistant", <<"w">>)

\* part_001:172 the message added when the request fails
Apology == <<"s", "o", "r", "r", "y">>

\* the text the user submits
Question == <<"q">>

\* The calls of the specification TwoSpec.
Calls == {1, 2}

\* groq.ts:109-111 the variables of one call
EmptyFrame ==
    [buffer |-> <<>>, lines |-> <<>>, accumulatedChunks |-> <<>>,
     fullResponse |-> <<>>]

\* two calls that have not fetched yet
TwoStart ==
    [pc |-> [c \in Calls |-> "fetch"],
     wire |-> [c \in Calls |-> <<>>],
     pos |-> [c \in Calls |-> 0],
     cuts |-> [c \in Calls |-> <<>>],
     chunks |-> [c \in Calls |-> <<>>],
     returned |-> [c \in Calls |-> <<>>],
     frames |-> [f \in Calls |-> EmptyFrame]]

\* authStore.ts:22-24 the store as created (user null, loading true), before
\* the module has subscribed and asked for the session.  session is the
\* provider's side; getSession, signIn, signUp and signOut are the positions
\* of the calls; events are the auth-state-change events not yet delivered
\* (TRUE: with a session); last names the step taken last.
AuthStart ==
    [user |-> "null", loading |-> TRUE, session |-> FALSE,
     getSession |-> "none", signIn |-> "idle", signUp |-> "idle",
     signOut |-> "idle", events |-> <<>>, last |-> "none"]

\* ChatProvider is mounted and has shown its welcome message; nothing has
\* been submitted.
Init ==
    /\ pc = "idle"
    /\ fetches = 0
    /\ caller = "none"
    /\ sendPc = "idle"
    /\ messages = <<WelcomeMessage>>
    /\ isLoading = FALSE
    /\ assistantId = NoId
    /\ now = 0
    /\ mounted = TRUE
    /\ cancelled = FALSE
    /\ chunksAtCancel = 0
    /\ result = <<>>
    /\ syncReturned = <<>>
    /\ two = TwoStart
    /\ apiMessages = <<>>
    /\ requests = 0
    /\ ignored = 0
    /\ auth = AuthStart
    /\ records = <<>>
    /\ wire = <<>>
    /\ pos = 0
    /\ buffer = <<>>
    /\ lines = <<>>
    /\ accumulatedChunks = <<>>
    /\ fullResponse = <<>>
    /\ chunks = <<>>
    /\ shown = <<>>
    /\ updates = <<>>
    /\ received = <<>>
    /\ seen = <<>>
    /\ doneSeen = FALSE
    /\ lateParsed = FALSE
    /\ lateAdded = FALSE
    /\ lateEmitted = FALSE
    /\ outcomes = <<>>
    /\ failure = "none"

streamVars == <<records, wire, pos, buffer, lines>>
textVars == <<accumulatedChunks, fullResponse, received>>
consumerVars == <<chunks, shown, updates, messages, result>>
ghostVars == <<seen, doneSeen, lateParsed, lateAdded, lateEmitted>>
uiVars == <<caller, sendPc, isLoading, assistantId, now, mounted, cancelled,
            chunksAtCancel, syncReturned>>
callVars == <<pc, streamVars, textVars, ghostVars, outcomes, failure, fetches>>
\* what a step of the read loop leaves alone
\* the variables of the page around the chat: what sendMessage sent, the
\* submit counts, and the auth store
pageVars == <<apiMessages, requests, ignored, auth>>

outerVars == <<fetches, uiVars, two, pageVars>>

\* Mutant of Throw: the error is reported but the call is not left.
Throw_GoesOn(why) ==
    /\ pc' = pc
    /\ failure' = why
    /\ outcomes' = Append(outcomes, "reject")

\* groq.ts:155-158 (and :61): the call throws; the promise rejects.
Throw(why) ==
    /\ pc' = "rejected"
    /\ failure' = why
    /\ outcomes' = Append(outcomes, "reject")

\* back to the for loop, or to reader.read when it has run out of lines
NextPc(rest) == IF rest = <<>> THEN "read" ELSE "lines"

\* Mutant of onChunk: the message is given the chunk instead of the text so far.
onChunk_Overwrites(chunk) ==
    /\ chunks' = Append(chunks, chunk)
    /\ shown' = chunk
    /\ updates' = Append(updates, chunk)
    /\ lateEmitted' = (lateEmitted \/ lateAdded)
    /\ UNCHANGED <<messages, result>>

\* part_001:160-166 setMessages(prev => prev.map(...)): the message with the
\* given id gets the content; a state update after the unmount does nothing.
SetContent(msgs, id, content) ==
    IF mounted
    THEN [i \in 1..Len(msgs) |->
            IF msgs[i].id = id THEN [msgs[i] EXCEPT !.content = content]
            ELSE msgs[i]]
    ELSE msgs

\* part_003:31-44 updateMessage of the chat store: the assistant message
\* with the given id gets the content, trimmed (the patterns of part_003:37-38
\* match nothing in the texts of the model).
StoreUpdateMessage(msgs, id, content) ==
    [i \in 1..Len(msgs) |->
        IF msgs[i].id = id /\ msgs[i].role = "assistant"
        THEN [msgs[i] EXCEPT !.content = trim(content)]
        ELSE msgs[i]]

\* part_001:158-167 the onChunk callback of sendMessage, groq.ts:171 the one
\* of getCompletionSync, and part_003:64-71 the one of the chat store, which
\* trims every chunk before it joins the text.
onChunk(chunk) ==
    /\ chunks' = Append(chunks, chunk)
    /\ lateEmitted' = (lateEmitted \/ lateAdded)
    /\ IF caller = "sync"
       THEN /\ result' = result \o chunk
            /\ UNCHANGED <<shown, updates, messages>>
       ELSE IF caller = "store"
       THEN /\ shown' = shown \o trim(chunk)
            /\ updates' = Append(updates, trim(shown \o trim(chunk)))
            /\ messages' = StoreUpdateMessage(messages, assistantId,
                                              shown \o trim(chunk))
            /\ UNCHANGED result
       ELSE /\ shown' = shown \o chunk
            /\ updates' = Append(updates, shown \o chunk)
            /\ messages' = SetContent(messages, assistantId, shown \o chunk)
            /\ UNCHANGED result

\* ---------------------------------------------------------------- actions

\* groq.ts:60-62 the key check, before the try block
CheckKey ==
    /\ pc = "start"
    /\ \E GROQ_API_KEY \in BOOLEAN :
          IF GROQ_API_KEY
          THEN pc' = "fetch" /\ UNCHANGED <<outcomes, failure>>
          ELSE Throw("nokey")
    /\ UNCHANGED <<streamVars, textVars, consumerVars, ghostVars>>
    /\ UNCHANGED outerVars

\* Mutant of FetchFail: the request is issued again after its first failure.
FetchFail_Retries ==
    /\ pc = "fetch"
    /\ IF fetches = 0
       THEN UNCHANGED <<pc, failure, outcomes>>
       ELSE Throw("network")
    /\ UNCHANGED <<streamVars, textVars, consumerVars, ghostVars>>
    /\ fetches' = fetches + 1
    /\ UNCHANGED <<uiVars, two, pageVars>>

\* groq.ts:80-93 fetch rejects (no connection)
FetchFail ==
    /\ pc = "fetch"
    /\ Throw("network")
    /\ UNCHANGED <<streamVars, textVars, consumerVars, ghostVars>>
    /\ fetches' = fetches + 1
    /\ UNCHANGED <<uiVars, two, pageVars>>

\* Mutant of HttpError: response.ok is looked at only after the body has
\* been read from.
HttpError_AfterBody ==
    /\ pc \in {"fetch", "read"}
    /\ Throw("http")
    /\ UNCHANGED <<streamVars, textVars, consumerVars, ghostVars>>
    /\ fetches' = fetches + 1
    /\ UNCHANGED <<uiVars, two, pageVars>>

\* groq.ts:95-101 the response is not ok
HttpError ==
    /\ pc = "fetch"
    /\ Throw("http")
    /\ UNCHANGED <<streamVars, textVars, consumerVars, ghostVars>>
    /\ fetches' = fetches + 1
    /\ UNCHANGED <<uiVars, two, pageVars>>

\* groq.ts:103-106 the response has no body
NoBody ==
    /\ pc = "fetch"
    /\ Throw("nobody")
    /\ UNCHANGED <<streamVars, textVars, consumerVars, ghostVars>>
    /\ fetches' = fetches + 1
    /\ UNCHANGED <<uiVars, two, pageVars>>

\* groq.ts:80-111 the response is ok and has a body: the service streams some
\* lines; the loop starts with empty buffers.
FetchFrom(streams, endings) ==
    /\ pc = "fetch"
    /\ \E rs \in streams, terminated \in endings :
          /\ records' = rs
          /\ wire' = EncodeStream(rs, terminated)
    /\ pos' = 0
    /\ buffer' = <<>>
    /\ lines' = <<>>
    /\ accumulatedChunks' = <<>>
    /\ fullResponse' = <<>>
    /\ pc' = "read"
    /\ UNCHANGED <<received, consumerVars, ghostVars, outcomes, failure>>
    /\ fetches' = fetches + 1
    /\ UNCHANGED <<uiVars, two, pageVars>>

\* the streams of the specification Spec
FetchOk == FetchFrom(Streams, BOOLEAN)

\* the streams of the specification ChatSpec
FetchOkChat == FetchFrom(ChatStreams, {TRUE})

\* the streams of the specification PageSpec
FetchOkPage == FetchFrom(PageStreams, {TRUE})

\* groq.ts:114-121 reader.read() yields the next n bytes; they are decoded,
\* appended to the buffer, and the buffer is cut into lines, the last piece
\* staying in the buffer.
ReadPieces(whole) ==
    /\ pc = "read"
    /\ pos < Len(wire)
    /\ \E n \in (IF whole THEN {Len(wire) - pos} ELSE 1..(Len(wire) - pos)) :
          LET chunk == decode(SubSeq(wire, pos + 1, pos + n))
              parts == split(buffer \o chunk)
          IN /\ pos' = pos + n
             /\ lines' = SubSeq(parts, 1, Len(parts) - 1)
             /\ buffer' = parts[Len(parts)]
             /\ pc' = NextPc(SubSeq(parts, 1, Len(parts) - 1))
    /\ UNCHANGED <<records, wire, textVars, consumerVars, ghostVars,
                   outcomes, failure>>
    /\ UNCHANGED outerVars

\* a read returns any number of the bytes that are left
ReadChunk == ReadPieces(FALSE)

\* a read returns all the bytes that are left (specification PageSpec)
ReadWhole == ReadPieces(TRUE)

\* Mutant of ReadFail: the catch block logs the error and returns the text so
\* far instead of rethrowing.
ReadFail_Swallowed ==
    /\ pc = "read"
    /\ pc' = "resolved"
    /\ failure' = "read"
    /\ outcomes' = Append(outcomes, "resolve")
    /\ UNCHANGED <<streamVars, textVars, consumerVars, ghostVars>>
    /\ UNCHANGED outerVars

\* groq.ts:114 reader.read() rejects; groq.ts:155-158 logs and rethrows.
ReadFail ==
    /\ pc = "read"
    /\ Throw("read")
    /\ UNCHANGED <<streamVars, textVars, consumerVars, ghostVars>>
    /\ UNCHANGED outerVars

\* Mutant of ReadDone: the final flush is left out.
ReadDone_NoFinalFlush ==
    /\ pc = "read"
    /\ pos = Len(wire)
    /\ pc' = "resolved"
    /\ outcomes' = Append(outcomes, "resolve")
    /\ UNCHANGED <<streamVars, textVars, consumerVars, ghostVars, failure>>
    /\ UNCHANGED outerVars

\* groq.ts:115,148-154 the stream is done: the rest of the pending text is
\* sent, and the call returns fullResponse.
ReadDone ==
    /\ pc = "read"
    /\ pos = Len(wire)
    /\ IF accumulatedChunks # <<>>
       THEN /\ onChunk(accumulatedChunks)
            /\ fullResponse' = fullResponse \o accumulatedChunks
       ELSE UNCHANGED <<consumerVars, lateEmitted, fullResponse>>
    /\ pc' = "resolved"
    /\ outcomes' = Append(outcomes, "resolve")
    /\ UNCHANGED <<streamVars, accumulatedChunks, received, seen, doneSeen,
                   lateParsed, lateAdded, failure>>
    /\ UNCHANGED outerVars

\* groq.ts:123-125 an empty line or the sentinel: continue
SkipLine ==
    /\ pc = "lines"
    /\ LET trimmedLine == trim(Head(lines))
       IN /\ Skipped(trimmedLine)
          /\ seen' = Append(seen, trimmedLine)
          /\ doneSeen' = (doneSeen \/ trimmedLine = DONE)
    /\ lines' = Tail(lines)
    /\ pc' = NextPc(Tail(lines))
    /\ UNCHANGED <<records, wire, pos, buffer, textVars, consumerVars,
                   lateParsed, lateAdded, lateEmitted, outcomes, failure>>
    /\ UNCHANGED outerVars

\* Mutant of ParseError: the handler also throws the pending text away.
ParseError_DropsPending ==
    /\ pc = "lines"
    /\ LET trimmedLine == trim(Head(lines))
       IN /\ ~Skipped(trimmedLine)
          /\ ~JSONparse(stripPrefix(trimmedLine)).ok
          /\ seen' = Append(seen, trimmedLine)
    /\ accumulatedChunks' = <<>>
    /\ lateParsed' = (lateParsed \/ doneSeen)
    /\ lines' = Tail(lines)
    /\ pc' = NextPc(Tail(lines))
    /\ UNCHANGED <<records, wire, pos, buffer, fullResponse, received,
                   consumerVars, doneSeen, lateAdded, lateEmitted, outcomes,
                   failure>>
    /\ UNCHANGED outerVars

\* groq.ts:127-129,142-144 JSON.parse throws: warn and go on
ParseError ==
    /\ pc = "lines"
    /\ LET trimmedLine == trim(Head(lines))
       IN /\ ~Skipped(trimmedLine)
          /\ ~JSONparse(stripPrefix(trimmedLine)).ok
          /\ seen' = Append(seen, trimmedLine)
    /\ lateParsed' = (lateParsed \/ doneSeen)
    /\ lines' = Tail(lines)
    /\ pc' = NextPc(Tail(lines))
    /\ UNCHANGED <<records, wire, pos, buffer, textVars, consumerVars,
                   doneSeen, lateAdded, lateEmitted, outcomes, failure>>
    /\ UNCHANGED outerVars

\* Mutant of NoContent: a record without content makes the pending text go
\* out.
NoContent_Flushes ==
    /\ pc = "lines"
    /\ LET trimmedLine == trim(Head(lines))
           data == JSONparse(stripPrefix(trimmedLine))
       IN /\ ~Skipped(trimmedLine)
          /\ data.ok
          /\ data.content = <<>>
          /\ seen' = Append(seen, trimmedLine)
    /\ IF accumulatedChunks # <<>>
       THEN /\ onChunk(accumulatedChunks)
            /\ fullResponse' = fullResponse \o accumulatedChunks
            /\ accumulatedChunks' = <<>>
       ELSE UNCHANGED <<textVars, consumerVars, lateEmitted>>
    /\ lateParsed' = (lateParsed \/ doneSeen)
    /\ lines' = Tail(lines)
    /\ pc' = NextPc(Tail(lines))
    /\ UNCHANGED <<records, wire, pos, buffer, received, doneSeen, lateAdded,
                   outcomes, failure>>
    /\ UNCHANGED outerVars

\* groq.ts:131-132 the record has no content
NoContent ==
    /\ pc = "lines"
    /\ LET trimmedLine == trim(Head(lines))
           data == JSONparse(stripPrefix(trimmedLine))
       IN /\ ~Skipped(trimmedLine)
          /\ data.ok
          /\ data.content = <<>>
          /\ seen' = Append(seen, trimmedLine)
    /\ lateParsed' = (lateParsed \/ doneSeen)
    /\ lines' = Tail(lines)
    /\ pc' = NextPc(Tail(lines))
    /\ UNCHANGED <<records, wire, pos, buffer, textVars, consumerVars,
                   doneSeen, lateAdded, lateEmitted, outcomes, failure>>
    /\ UNCHANGED outerVars

\* Mutant of Accumulate: a flush that is due is made at once, without the
\* sleep.
Accumulate_NoDelay ==
    /\ pc = "lines"
    /\ LET trimmedLine == trim(Head(lines))
           data == JSONparse(stripPrefix(trimmedLine))
       IN /\ ~Skipped(trimmedLine)
          /\ data.ok
          /\ data.content # <<>>
          /\ seen' = Append(seen, trimmedLine)
          /\ received' = Append(received, data.content)
          /\ IF FlushDue(accumulatedChunks \o data.content, data.finish_reason)
             THEN /\ onChunk(accumulatedChunks \o data.content)
                  /\ fullResponse' =
                        fullResponse \o accumulatedChunks \o data.content
                  /\ accumulatedChunks' = <<>>
             ELSE /\ accumulatedChunks' = accumulatedChunks \o data.content
                  /\ UNCHANGED <<fullResponse, consumerVars, lateEmitted>>
    /\ pc' = NextPc(Tail(lines))
    /\ lateParsed' = (lateParsed \/ doneSeen)
    /\ lateAdded' = (lateAdded \/ doneSeen)
    /\ lines' = Tail(lines)
    /\ UNCHANGED <<records, wire, pos, buffer, doneSeen, outcomes, failure>>
    /\ UNCHANGED outerVars

\* groq.ts:131-136 the record has content: it joins the pending text, and the
\* call sleeps before a flush when the flush is due.
Accumulate ==
    /\ pc = "lines"
    /\ LET trimmedLine == trim(Head(lines))
           data == JSONparse(stripPrefix(trimmedLine))
       IN /\ ~Skipped(trimmedLine)
          /\ data.ok
          /\ data.content # <<>>
          /\ seen' = Append(seen, trimmedLine)
          /\ accumulatedChunks' = accumulatedChunks \o data.content
          /\ received' = Append(received, data.content)
          /\ pc' = IF FlushDue(accumulatedChunks \o data.content, data.finish_reason)
                   THEN "sleep"
                   ELSE NextPc(Tail(lines))
    /\ lateParsed' = (lateParsed \/ doneSeen)
    /\ lateAdded' = (lateAdded \/ doneSeen)
    /\ lines' = Tail(lines)
    /\ UNCHANGED <<records, wire, pos, buffer, fullResponse, consumerVars,
                   doneSeen, lateEmitted, outcomes, failure>>
    /\ UNCHANGED outerVars

\* Mutant of Flush: the pending text is not emptied after it was sent.
Flush_KeepsPending ==
    /\ pc = "sleep"
    /\ onChunk(accumulatedChunks)
    /\ fullResponse' = fullResponse \o accumulatedChunks
    /\ pc' = NextPc(lines)
    /\ UNCHANGED <<streamVars, accumulatedChunks, received, seen, doneSeen,
                   lateParsed, lateAdded, outcomes, failure>>
    /\ UNCHANGED outerVars

\* groq.ts:136-139 the sleep is over: the pending text goes to onChunk and
\* into fullResponse, and the pending text is emptied.
Flush ==
    /\ pc = "sleep"
    /\ onChunk(accumulatedChunks)
    /\ fullResponse' = fullResponse \o accumulatedChunks
    /\ accumulatedChunks' = <<>>
    /\ pc' = NextPc(lines)
    /\ UNCHANGED <<streamVars, received, seen, doneSeen, lateParsed,
                   lateAdded, outcomes, failure>>
    /\ UNCHANGED outerVars

\* ------------------------------------------------- the callers of the call

\* part_001:139-151 the list for the service: messagesRef.current (the
\* messages of the last render, part_001:68-70) without the message that has
\* the id of the placeholder, as role and content, and the new user message
\* pushed last.  from is the place of the entry in messagesRef.current, 0
\* for the pushed one.
ApiMessages(ref, placeholderId, content) ==
    LET Kept(i) == ref[i].id # placeholderId
        currentMessages == SelectSeq([i \in 1..Len(ref) |-> i], Kept)
    IN [k \in 1..Len(currentMessages) |->
           [role |-> ref[currentMessages[k]].role,
            content |-> ref[currentMessages[k]].content,
            from |-> currentMessages[k]]]
       \o << [role |-> "user", content |-> content, from |-> 0] >>

\* Mutant of StartRequest: messagesRef.current already holds the two messages
\* that sendMessage has just added.
StartRequest_FreshRef(t) ==
    /\ messages' = messages
                    \o << Message(Id("", t), "user", Question),
                          Message(Id("", t + 1), "assistant", <<>>) >>
    /\ assistantId' = Id("", t + 1)
    /\ apiMessages' = ApiMessages(messages', Id("", t + 1), Question)
    /\ isLoading' = TRUE
    /\ caller' = "sendMessage"
    /\ sendPc' = "awaiting"
    /\ pc' = "start"
    /\ requests' = requests + 1

\* part_001:102-157 sendMessage at time t, up to the call: the user message
\* and the empty assistant message are added, and the list for the service
\* is built.
StartRequest(t) ==
    /\ messages' = messages
                    \o << Message(Id("", t), "user", Question),
                          Message(Id("", t + 1), "assistant", <<>>) >>
    /\ assistantId' = Id("", t + 1)
    /\ apiMessages' = ApiMessages(messages, Id("", t + 1), Question)
    /\ isLoading' = TRUE
    /\ caller' = "sendMessage"
    /\ sendPc' = "awaiting"
    /\ pc' = "start"
    /\ requests' = requests + 1

\* part_001:563-582 handleSubmit, and part_001:644 Ctrl+Enter: the first
\* request of the page.
Submit ==
    /\ sendPc = "idle"
    /\ mounted
    /\ ~isLoading
    /\ StartRequest(now)
    /\ UNCHANGED <<streamVars, textVars, chunks, shown, updates, result,
                   ghostVars, outcomes, failure, fetches, now, mounted,
                   cancelled, chunksAtCancel, syncReturned, two, ignored,
                   auth>>

\* part_001:563-582 a later request, after the one before is over: the new
\* call of getChatCompletion and its callback start from their own empty
\* variables (groq.ts:108-111, part_001:153).
Resubmit ==
    /\ sendPc = "done"
    /\ caller = "sendMessage"
    /\ mounted
    /\ ~isLoading
    /\ requests < MaxRequests
    /\ \E t \in (now + 1)..MaxElapsed :
          /\ now' = t
          /\ StartRequest(t)
    /\ records' = <<>>
    /\ wire' = <<>>
    /\ pos' = 0
    /\ buffer' = <<>>
    /\ lines' = <<>>
    /\ accumulatedChunks' = <<>>
    /\ fullResponse' = <<>>
    /\ received' = <<>>
    /\ chunks' = <<>>
    /\ shown' = <<>>
    /\ updates' = <<>>
    /\ seen' = <<>>
    /\ doneSeen' = FALSE
    /\ lateParsed' = FALSE
    /\ lateAdded' = FALSE
    /\ lateEmitted' = FALSE
    /\ outcomes' = <<>>
    /\ failure' = "none"
    /\ fetches' = 0
    /\ UNCHANGED <<result, mounted, cancelled, chunksAtCancel, syncReturned,
                   two, ignored, auth>>

\* Mutant of SubmitIgnored: the submit goes through while a request is in
\* flight.
SubmitIgnored_Sends ==
    /\ mounted
    /\ isLoading
    /\ ignored < MaxIgnored
    /\ ignored' = ignored + 1
    /\ messages' = messages
                    \o << Message(Id("", now), "user", Question),
                          Message(Id("", now + 1), "assistant", <<>>) >>
    /\ requests' = requests + 1
    /\ UNCHANGED <<callVars, chunks, shown, updates, result, uiVars, two,
                   apiMessages, auth>>

\* part_001:567 and part_001:644 a submit while isLoading: handleSubmit
\* returns at once, and the Ctrl+Enter handler does not call it.
SubmitIgnored ==
    /\ mounted
    /\ isLoading
    /\ ignored < MaxIgnored
    /\ ignored' = ignored + 1
    /\ UNCHANGED <<callVars, consumerVars, uiVars, two, apiMessages, requests,
                   auth>>

\* Mutant of FinishOk: without the finally block.
FinishOk_KeepsLoading ==
    /\ sendPc = "awaiting"
    /\ caller = "sendMessage"
    /\ pc = "resolved"
    /\ sendPc' = "done"
    /\ UNCHANGED <<callVars, consumerVars, caller, isLoading, assistantId, now,
                   mounted, cancelled, chunksAtCancel, syncReturned, two,
                   pageVars>>

\* part_001:168,173-175 the call has resolved: finally
FinishOk ==
    /\ sendPc = "awaiting"
    /\ caller = "sendMessage"
    /\ pc = "resolved"
    /\ sendPc' = "done"
    /\ isLoading' = IF mounted THEN FALSE ELSE isLoading
    /\ UNCHANGED <<callVars, consumerVars, caller, assistantId, now, mounted,
                   cancelled, chunksAtCancel, syncReturned, two, pageVars>>

\* Mutant of FinishError: the failed reply is emptied.
FinishError_Reverts ==
    /\ sendPc = "awaiting"
    /\ caller = "sendMessage"
    /\ pc = "rejected"
    /\ messages' =
          IF mounted
          THEN Append(SetContent(messages, assistantId, <<>>),
                      Message(Id("", now), "assistant", Apology))
          ELSE messages
    /\ sendPc' = "done"
    /\ isLoading' = IF mounted THEN FALSE ELSE isLoading
    /\ UNCHANGED <<callVars, chunks, shown, updates, result, caller,
                   assistantId, now, mounted, cancelled, chunksAtCancel,
                   syncReturned, two, pageVars>>

\* part_001:170-175 the call has thrown: catch adds the apology through
\* addMessage (part_001:85-94), then finally
FinishError ==
    /\ sendPc = "awaiting"
    /\ caller = "sendMessage"
    /\ pc = "rejected"
    /\ messages' =
          IF mounted
          THEN Append(messages, Message(Id("", now), "assistant", Apology))
          ELSE messages
    /\ sendPc' = "done"
    /\ isLoading' = IF mounted THEN FALSE ELSE isLoading
    /\ UNCHANGED <<callVars, chunks, shown, updates, result, caller,
                   assistantId, now, mounted, cancelled, chunksAtCancel,
                   syncReturned, two, pageVars>>

\* part_001:87 Date.now(): the clock of the page moves on while a request
\* is awaited
Tick ==
    /\ sendPc = "awaiting"
    /\ now < MaxElapsed
    /\ now' = now + 1
    /\ UNCHANGED <<callVars, consumerVars, caller, sendPc, isLoading,
                   assistantId, mounted, cancelled, chunksAtCancel,
                   syncReturned, two, pageVars>>

\* groq.ts:164-173 getCompletionSync starts the call with its own callback
CallSync ==
    /\ sendPc = "idle"
    /\ caller' = "sync"
    /\ result' = <<>>
    /\ sendPc' = "awaiting"
    /\ pc' = "start"
    /\ UNCHANGED <<streamVars, textVars, chunks, shown, updates, messages,
                   ghostVars, outcomes, failure, fetches, isLoading,
                   assistantId, now, mounted, cancelled, chunksAtCancel,
                   syncReturned, two, pageVars>>

\* Mutant of SyncReturn: the value of the call is returned, not the gathered one.
SyncReturn_Other ==
    /\ sendPc = "awaiting"
    /\ caller = "sync"
    /\ pc = "resolved"
    /\ syncReturned' = <<accumulatedChunks>>
    /\ sendPc' = "done"
    /\ UNCHANGED <<callVars, consumerVars, caller, isLoading, assistantId, now,
                   mounted, cancelled, chunksAtCancel, two, pageVars>>

\* groq.ts:169-174 the call has resolved: getCompletionSync returns result
SyncReturn ==
    /\ sendPc = "awaiting"
    /\ caller = "sync"
    /\ pc = "resolved"
    /\ syncReturned' = <<result>>
    /\ sendPc' = "done"
    /\ UNCHANGED <<callVars, consumerVars, caller, isLoading, assistantId, now,
                   mounted, cancelled, chunksAtCancel, two, pageVars>>

\* groq.ts:169 the call has thrown: getCompletionSync throws too
SyncThrow ==
    /\ sendPc = "awaiting"
    /\ caller = "sync"
    /\ pc = "rejected"
    /\ sendPc' = "done"
    /\ UNCHANGED <<callVars, consumerVars, caller, isLoading, assistantId, now,
                   mounted, cancelled, chunksAtCancel, syncReturned, two, pageVars>>

\* part_001:178-184 clearMessages, from the button of part_001:755-762 that is
\* disabled while isLoading
ClearMessages ==
    /\ mounted
    /\ ~isLoading
    /\ messages' = <<>>
    /\ UNCHANGED <<callVars, chunks, shown, updates, result, uiVars, two, pageVars>>

\* part_001:612-621 handleLogout (or any route change): ChatInterface and its
\* ChatProvider unmount.  Nothing aborts the request: fetch is given no
\* signal (groq.ts:80-93) and the reader is not cancelled.
NavigateAway ==
    /\ mounted
    /\ mounted' = FALSE
    /\ cancelled' = (sendPc = "awaiting" /\ pc \notin {"resolved", "rejected"})
    /\ chunksAtCancel' = Len(chunks)
    /\ UNCHANGED <<callVars, consumerVars, caller, sendPc, isLoading,
                   assistantId, now, syncReturned, two, pageVars>>

Next ==
    \/ Submit
    \/ FinishOk
    \/ FinishError
    \/ CheckKey
    \/ FetchFail
    \/ HttpError
    \/ NoBody
    \/ FetchOk
    \/ ReadChunk
    \/ ReadFail
    \/ ReadDone
    \/ SkipLine
    \/ ParseError
    \/ NoContent
    \/ Accumulate
    \/ Flush

Spec == Init /\ [][Next]_vars

\* ------------------------------------------------ two calls at the same time

\* Mutant of Frame: buffer, accumulatedChunks and fullResponse are variables
\* of the module, the same for every call.
Frame_Shared(c) == 1

\* groq.ts:108-111 reader, decoder, buffer, accumulatedChunks and fullResponse
\* are declared inside getChatCompletion: every call has its own.
Frame(c) == c

\* groq.ts:123-136 what one line does to the pending text: the new pending
\* text, and whether a flush is due.
LineEffect(line, acc) ==
    LET trimmedLine == trim(line)
        data == JSONparse(stripPrefix(trimmedLine))
    IN IF Skipped(trimmedLine) \/ ~data.ok \/ data.content = <<>>
       THEN [acc |-> acc, flush |-> FALSE]
       ELSE [acc |-> acc \o data.content,
             flush |-> FlushDue(acc \o data.content, data.finish_reason)]

\* the variables of the specifications Spec and ChatSpec
soloVars == <<callVars, consumerVars, uiVars, pageVars>>

\* groq.ts:80-111 call c gets its response, and its variables start empty
TFetchOk(c) ==
    /\ two.pc[c] = "fetch"
    /\ \E rs \in TwoStreams :
          two' = [two EXCEPT !.pc[c] = "read",
                             !.wire[c] = EncodeStream(rs, TRUE),
                             !.frames[Frame(c)] = EmptyFrame]
    /\ UNCHANGED soloVars

\* groq.ts:114-121 call c reads: the rest of the stream, or CutLen bytes of it
TReadChunk(c) ==
    /\ two.pc[c] = "read"
    /\ two.pos[c] < Len(two.wire[c])
    /\ \E n \in {Len(two.wire[c]) - two.pos[c], CutLen} :
          /\ n <= Len(two.wire[c]) - two.pos[c]
          /\ LET f == two.frames[Frame(c)]
                 chunk == decode(SubSeq(two.wire[c], two.pos[c] + 1,
                                        two.pos[c] + n))
                 parts == split(f.buffer \o chunk)
                 rest == SubSeq(parts, 1, Len(parts) - 1)
             IN two' = [two EXCEPT
                          !.pos[c] = two.pos[c] + n,
                          !.cuts[c] = Append(two.cuts[c], n),
                          !.pc[c] = NextPc(rest),
                          !.frames[Frame(c)] =
                              [f EXCEPT !.buffer = parts[Len(parts)],
                                        !.lines = rest]]
    /\ UNCHANGED soloVars

\* groq.ts:122-136 call c handles the next line of its for loop
TLine(c) ==
    /\ two.pc[c] = "lines"
    /\ LET f == two.frames[Frame(c)]
       IN IF f.lines = <<>>
          THEN two' = [two EXCEPT !.pc[c] = "read"]
          ELSE LET e == LineEffect(Head(f.lines), f.accumulatedChunks)
               IN two' = [two EXCEPT
                            !.pc[c] = IF e.flush THEN "sleep"
                                      ELSE NextPc(Tail(f.lines)),
                            !.frames[Frame(c)] =
                                [f EXCEPT !.accumulatedChunks = e.acc,
                                          !.lines = Tail(f.lines)]]
    /\ UNCHANGED soloVars

\* Mutant of TFlush: the pending text goes to the callback of the other call.
TFlush_Crossed(c) ==
    /\ two.pc[c] = "sleep"
    /\ LET f == two.frames[Frame(c)]
           o == CHOOSE d \in Calls : d # c
       IN two' = [two EXCEPT
                    !.chunks[o] = Append(two.chunks[o], f.accumulatedChunks),
                    !.pc[c] = NextPc(f.lines),
                    !.frames[Frame(c)] =
                        [f EXCEPT !.fullResponse =
                                      f.fullResponse \o f.accumulatedChunks,
                                  !.accumulatedChunks = <<>>]]
    /\ UNCHANGED soloVars

\* groq.ts:136-139 the sleep of call c is over: its pending text goes to its
\* callback and into its fullResponse
TFlush(c) ==
    /\ two.pc[c] = "sleep"
    /\ LET f == two.frames[Frame(c)]
       IN two' = [two EXCEPT
                    !.chunks[c] = Append(two.chunks[c], f.accumulatedChunks),
                    !.pc[c] = NextPc(f.lines),
                    !.frames[Frame(c)] =
                        [f EXCEPT !.fullResponse =
                                      f.fullResponse \o f.accumulatedChunks,
                                  !.accumulatedChunks = <<>>]]
    /\ UNCHANGED soloVars

\* groq.ts:115,148-154 the stream of call c is done: final flush and return
TReadDone(c) ==
    /\ two.pc[c] = "read"
    /\ two.pos[c] = Len(two.wire[c])
    /\ LET f == two.frames[Frame(c)]
           full == f.fullResponse \o f.accumulatedChunks
       IN two' = [two EXCEPT
                    !.chunks[c] = IF f.accumulatedChunks # <<>>
                                  THEN Append(two.chunks[c], f.accumulatedChunks)
                                  ELSE two.chunks[c],
                    !.returned[c] = <<full>>,
                    !.pc[c] = "resolved",
                    !.frames[Frame(c)] = [f EXCEPT !.fullResponse = full]]
    /\ UNCHANGED soloVars

TwoNext ==
    \E c \in Calls :
        \/ TFetchOk(c)
        \/ TReadChunk(c)
        \/ TLine(c)
        \/ TFlush(c)
        \/ TReadDone(c)

TwoSpec == Init /\ [][TwoNext]_vars

\* ------------------------------------------- the chat store of part_003

\* part_003:53-59 the list for the service: the messages of currentState
\* without the placeholder, as role and trimmed content, without the empty
\* ones.  from is the place of the entry in currentState.messages.
StoreApiMessages(current, placeholderId) ==
    LET Kept(i) == current[i].id # placeholderId /\ trim(current[i].content) # <<>>
        kept == SelectSeq([i \in 1..Len(current) |-> i], Kept)
    IN [k \in 1..Len(kept) |->
           [role |-> current[kept[k]].role,
            content |-> trim(current[kept[k]].content),
            from |-> kept[k]]]

\* part_003:14-16 the chat store is created: no messages, not loading
StoreCreate ==
    /\ caller = "none"
    /\ caller' = "store"
    /\ messages' = <<>>
    /\ UNCHANGED <<callVars, chunks, shown, updates, result, sendPc, isLoading,
                   assistantId, now, mounted, cancelled, chunksAtCancel,
                   syncReturned, two, pageVars>>

\* part_003:45-63 sendMessage of the store, up to the call.  currentState is
\* the state object got before the two addMessage calls, each of which makes
\* a new one: currentState.messages is the list as it was.  The ids are
\* random UUIDs (part_003:18), here the place of the message in the list.
StoreSend ==
    /\ caller = "store"
    /\ sendPc \in {"idle", "done"}
    /\ requests < MaxRequests
    /\ LET currentState == [messages |-> messages]
           userId == Id("uuid", Len(messages) + 1)
           assistantMessageId == Id("uuid", Len(messages) + 2)
       IN /\ messages' = messages
                           \o << Message(userId, "user", Question),
                                 Message(assistantMessageId, "assistant", <<>>) >>
          /\ assistantId' = assistantMessageId
          /\ apiMessages' = StoreApiMessages(currentState.messages,
                                             assistantMessageId)
    /\ isLoading' = TRUE
    /\ sendPc' = "awaiting"
    /\ pc' = "start"
    /\ requests' = requests + 1
    /\ records' = <<>>
    /\ wire' = <<>>
    /\ pos' = 0
    /\ buffer' = <<>>
    /\ lines' = <<>>
    /\ accumulatedChunks' = <<>>
    /\ fullResponse' = <<>>
    /\ received' = <<>>
    /\ chunks' = <<>>
    /\ shown' = <<>>
    /\ updates' = <<>>
    /\ seen' = <<>>
    /\ doneSeen' = FALSE
    /\ lateParsed' = FALSE
    /\ lateAdded' = FALSE
    /\ lateEmitted' = FALSE
    /\ outcomes' = <<>>
    /\ failure' = "none"
    /\ fetches' = 0
    /\ UNCHANGED <<result, caller, now, mounted, cancelled, chunksAtCancel,
                   syncReturned, two, ignored, auth>>

\* part_003:72,76-78 the call has resolved: finally
StoreFinishOk ==
    /\ sendPc = "awaiting"
    /\ caller = "store"
    /\ pc = "resolved"
    /\ sendPc' = "done"
    /\ isLoading' = FALSE
    /\ UNCHANGED <<callVars, consumerVars, caller, assistantId, now, mounted,
                   cancelled, chunksAtCancel, syncReturned, two, pageVars>>

\* part_003:73-78 the call has thrown: catch adds the apology, then finally
StoreFinishError ==
    /\ sendPc = "awaiting"
    /\ caller = "store"
    /\ pc = "rejected"
    /\ messages' = Append(messages,
                          Message(Id("uuid", Len(messages) + 1), "assistant",
                                  Apology))
    /\ sendPc' = "done"
    /\ isLoading' = FALSE
    /\ UNCHANGED <<callVars, chunks, shown, updates, result, caller,
                   assistantId, now, mounted, cancelled, chunksAtCancel,
                   syncReturned, two, pageVars>>

\* Requests sent through the chat store of part_003.
StoreNext ==
    \/ StoreCreate
    \/ StoreSend
    \/ StoreFinishOk
    \/ StoreFinishError
    \/ CheckKey
    \/ FetchFail
    \/ HttpError
    \/ NoBody
    \/ FetchOkPage
    \/ ReadWhole
    \/ ReadFail
    \/ ReadDone
    \/ SkipLine
    \/ Accumulate
    \/ Flush

StoreSpec == Init /\ [][StoreNext]_vars

\* ------------------------------------------------------------ the auth store

\* authStore.ts:85-96, 103-114 and 36-45: what the store holds for a session
UserOf(session) == IF session THEN "u" ELSE "null"

\* the variables of the chat
chatVars == <<callVars, consumerVars, uiVars, two, apiMessages, requests,
              ignored>>

\* authStore.ts:83,101 the module is loaded: it subscribes to the auth state
\* changes and asks for the session.  The provider has a stored session or
\* none, and announces it to the subscriber.
AuthLoad ==
    /\ auth.getSession = "none"
    /\ \E stored \in BOOLEAN :
          auth' = [auth EXCEPT !.session = stored,
                               !.getSession = IF stored THEN "session"
                                              ELSE "nosession",
                               !.events = <<stored>>,
                               !.last = "load"]
    /\ UNCHANGED chatVars

\* authStore.ts:101-116 getSession resolves with the session it found when
\* it looked
GetSessionResolved ==
    /\ auth.getSession \in {"session", "nosession"}
    /\ auth' = [auth EXCEPT !.user = UserOf(auth.getSession = "session"),
                            !.loading = FALSE,
                            !.getSession = "done",
                            !.last = "getSession"]
    /\ UNCHANGED chatVars

\* authStore.ts:83-98 an auth-state-change event is delivered
OnAuthStateChange ==
    /\ auth.events # <<>>
    /\ auth' = [auth EXCEPT !.user = UserOf(Head(auth.events)),
                            !.loading = FALSE,
                            !.events = Tail(auth.events),
                            !.last = IF Head(auth.events) THEN "eventSession"
                                     ELSE "eventNoSession"]
    /\ UNCHANGED chatVars

\* authStore.ts:28, 61, 76 a store action calls the provider and awaits
AuthCall(op) ==
    /\ auth.getSession # "none"
    /\ auth[op] = "idle"
    /\ auth' = [auth EXCEPT ![op] = "pending", !.last = "call"]
    /\ UNCHANGED chatVars

\* authStore.ts:33, 69, 77 the provider answers with an error: throw
AuthError(op) ==
    /\ auth[op] = "pending"
    /\ auth' = [auth EXCEPT ![op] = "idle", !.last = "threw"]
    /\ UNCHANGED chatVars

\* authStore.ts:27-47 signIn gets its user: the provider has a session and
\* announces it
SignInOk ==
    /\ auth.signIn = "pending"
    /\ Len(auth.events) < MaxEvents
    /\ auth' = [auth EXCEPT !.signIn = "idle",
                            !.session = TRUE,
                            !.user = "u",
                            !.loading = FALSE,
                            !.events = Append(auth.events, TRUE),
                            !.last = "signInOk"]
    /\ UNCHANGED chatVars

\* authStore.ts:60-73 signUp went through: a confirmation mail is sent, there
\* is no session yet
SignUpOk ==
    /\ auth.signUp = "pending"
    /\ auth' = [auth EXCEPT !.signUp = "idle", !.last = "signUpOk"]
    /\ UNCHANGED chatVars

\* Mutant of SignOutError: the user is cleared before the provider answers.
SignOutError_Clears ==
    /\ auth.signOut = "pending"
    /\ auth' = [auth EXCEPT !.signOut = "idle", !.user = "null",
                            !.last = "threw"]
    /\ UNCHANGED chatVars

SignInCall == AuthCall("signIn")

SignUpCall == AuthCall("signUp")

SignOutCall == AuthCall("signOut")

SignInError == AuthError("signIn")

SignUpError == AuthError("signUp")

SignOutError == AuthError("signOut")

\* authStore.ts:75-79 signOut went through: the session is gone, which the
\* provider announces, and the user is cleared
SignOutOk ==
    /\ auth.signOut = "pending"
    /\ Len(auth.events) < MaxEvents
    /\ auth' = [auth EXCEPT !.signOut = "idle",
                            !.session = FALSE,
                            !.user = "null",
                            !.events = Append(auth.events, FALSE),
                            !.last = "signOutOk"]
    /\ UNCHANGED chatVars

\* Mutant of PrivateRoute: loading is not looked at.
PrivateRoute_NoSpinner(user, loading) ==
    IF user # "null" THEN "children" ELSE "login"

\* groq.ts:192-204 PrivateRoute: what the /dashboard route renders
PrivateRoute(user, loading) ==
    IF loading THEN "spinner"
    ELSE IF user # "null" THEN "children" ELSE "login"

AuthNext ==
    \/ AuthLoad
    \/ GetSessionResolved
    \/ OnAuthStateChange
    \/ SignInCall
    \/ SignUpCall
    \/ SignOutCall
    \/ SignInError
    \/ SignUpError
    \/ SignOutError
    \/ SignInOk
    \/ SignUpOk
    \/ SignOutOk

AuthSpec == Init /\ [][AuthNext]_vars

\* One request, by sendMessage or by getCompletionSync, while the user may
\* clear the conversation or leave the page.
ChatNext ==
    \/ Submit
    \/ FinishOk
    \/ FinishError
    \/ CallSync
    \/ SyncReturn
    \/ SyncThrow
    \/ Tick
    \/ ClearMessages
    \/ NavigateAway
    \/ CheckKey
    \/ FetchFail
    \/ HttpError
    \/ NoBody
    \/ FetchOkChat
    \/ ReadChunk
    \/ ReadFail
    \/ ReadDone
    \/ SkipLine
    \/ ParseError
    \/ NoContent
    \/ Accumulate
    \/ Flush

ChatSpec == Init /\ [][ChatNext]_vars

\* Several requests from one page, one after the other, the user submitting
\* and clearing in between.
PageNext ==
    \/ Submit
    \/ Resubmit
    \/ SubmitIgnored
    \/ FinishOk
    \/ FinishError
    \/ Tick
    \/ ClearMessages
    \/ CheckKey
    \/ FetchFail
    \/ HttpError
    \/ NoBody
    \/ FetchOkPage
    \/ ReadWhole
    \/ ReadFail
    \/ ReadDone
    \/ SkipLine
    \/ Accumulate
    \/ Flush

PageSpec == Init /\ [][PageNext]_vars

\* PageSpec with the continuations of sendMessage run once they can: a
\* settled promise resumes the awaiting function.
PageLiveSpec == PageSpec /\ WF_vars(FinishOk) /\ WF_vars(FinishError)

TypeOK ==
    /\ pc \in {"idle", "start", "fetch", "read", "lines", "sleep", "resolved",
              "rejected"}
    /\ fetches \in 0..1
    /\ sendPc \in {"idle", "awaiting", "done"}
    /\ pos \in 0..Len(wire)
    /\ failure \in {"none", "nokey", "network", "http", "nobody", "read"}

\* ------------------------------------------- the whole loop as a function

\* groq.ts:123-152 the for loop over the given lines and the final flush,
\* without the pauses: the text the call returns.
RECURSIVE RunLines(_, _, _)
RunLines(ls, acc, full) ==
    IF ls = <<>> THEN full \o acc
    ELSE LET trimmedLine == trim(Head(ls))
             data == JSONparse(stripPrefix(trimmedLine))
         IN IF Skipped(trimmedLine) \/ ~data.ok \/ data.content = <<>>
            THEN RunLines(Tail(ls), acc, full)
            ELSE IF FlushDue(acc \o data.content, data.finish_reason)
                 THEN RunLines(Tail(ls), <<>>, full \o acc \o data.content)
                 ELSE RunLines(Tail(ls), acc \o data.content, full)

\* groq.ts:113-154 the text returned when the whole body arrives as one chunk
OneChunkText(bytes) ==
    LET parts == split(decode(bytes))
    IN RunLines(SubSeq(parts, 1, Len(parts) - 1), <<>>, <<>>)

\* The non-empty contents of the lines that parse, in order.
RECURSIVE ContentsOf(_)
ContentsOf(ls) ==
    IF ls = <<>> THEN <<>>
    ELSE LET data == JSONparse(stripPrefix(Head(ls)))
         IN (IF ~Skipped(Head(ls)) /\ data.ok /\ data.content # <<>>
             THEN <<data.content>> ELSE <<>>)
            \o ContentsOf(Tail(ls))

\* The delta.content values of the records sent, in order.
SentContents(rs) == [i \in 1..Len(rs) |-> rs[i].content]

ValidRecords(rs) == \A i \in 1..Len(rs) : rs[i].kind = "rec"

NoStop(rs) == \A i \in 1..Len(rs) : rs[i].finish # "stop"

Malformed(line) == ~Skipped(line) /\ ~JSONparse(stripPrefix(line)).ok

HasContent(line) ==
    /\ ~Skipped(line)
    /\ JSONparse(stripPrefix(line)).ok
    /\ JSONparse(stripPrefix(line)).content # <<>>

\* ----------------------------------------------------------------- claims

\* C1: when the stream ends normally, the chunks passed to onChunk, joined in
\* call order, are the non-empty fragments received, joined in arrival order:
\* nothing lost, duplicated or reordered.
EmittedEqualsReceived ==
    pc = "resolved" => Flatten(chunks) = Flatten(received)

\* C1 witness: a finished call whose fragments were regrouped into chunks.
EmittedEqualsReceivedWitness ==
    /\ pc = "resolved"
    /\ Len(chunks) >= 2
    /\ Len(received) > Len(chunks)

\* C2 (as claimed): for newline-terminated valid data records the returned
\* text is the concatenation of their delta.content values, however the bytes
\* were cut into network chunks.
FinalTextIsRecordText ==
    ( /\ pc = "resolved"
      /\ ValidRecords(records)
      /\ wire = EncodeStream(records, TRUE) )
    => fullResponse = Flatten(SentContents(records))

\* C3 (as claimed): whatever the chunking (one byte at a time, or anything
\* else), the returned text is the text returned for the body as one chunk.
ChunkingInvariance ==
    pc = "resolved" => fullResponse = OneChunkText(wire)

\* C4 (as claimed): after a line `data: [DONE]` no later line is parsed and no
\* fragment of a later line is added to the text or emitted.
DoneStopsProcessing ==
    ~lateParsed /\ ~lateAdded /\ ~lateEmitted

\* C5 (as claimed): when reader.read rejects, every fragment received before
\* has been delivered to onChunk by the time the call rejects.
FailureFlushesPending ==
    failure = "read" => Flatten(chunks) = Flatten(received)

Hi == <<"H", "i">>
HiThere == <<"H", "i", "SP", "t", "h", "e", "r", "e">>

\* C6 (as claimed): for the lines "Hi"/null, " there"/stop, [DONE] the
\* consumer gets exactly two updates, "Hi" then "Hi there", and one completion.
ScenarioHiTwoUpdates ==
    (records = ScenarioHi /\ pc = "resolved")
    => (updates = <<Hi, HiThere>> /\ outcomes = <<"resolve">>)

\* C6 (amended): for those lines the consumer gets exactly one update, with
\* the text "Hi there", and one completion: "Hi" is below the threshold and
\* has no stop signal, so it waits for " there".
ScenarioHiOneUpdate ==
    (records = ScenarioHi /\ pc = "resolved")
    => (updates = <<HiThere>> /\ outcomes = <<"resolve">>)

\* C6 witness: the scenario has run to its end.
ScenarioHiWitness ==
    /\ records = ScenarioHi
    /\ pc = "resolved"
    /\ Len(seen) >= 2

\* C7: without a stop signal, the pending text is emitted exactly when its
\* length reaches the threshold, and the rest at the end of the stream; for
\* the fragments a, b, c, d, e the updates are "abcd" and then "abcde".
ThresholdBehaviour ==
    NoStop(records) =>
        /\ pc \in {"read", "lines"} => Len(accumulatedChunks) < FlushThreshold
        /\ pc = "sleep" => Len(accumulatedChunks) >= FlushThreshold
        /\ \A i \in 1..Len(chunks) :
              (i < Len(chunks) \/ pc # "resolved")
              => Len(chunks[i]) >= FlushThreshold
        /\ ( /\ records = ScenarioABCDE
             /\ wire = EncodeStream(ScenarioABCDE, TRUE)
             /\ pc = "resolved" )
           => updates = << <<"a", "b", "c", "d">>, <<"a", "b", "c", "d", "e">> >>

\* C7 witness: the five fragments were received and the call has returned.
ThresholdWitness ==
    /\ records = ScenarioABCDE
    /\ Len(received) = 5
    /\ pc = "resolved"
    /\ Len(updates) = 2

\* C8: a line that does not parse is passed over: the text is made of the
\* contents of the lines that parse, in order, with nothing in between, and
\* the call does not fail for it.
MalformedLineSkipped ==
    /\ pc = "resolved" => fullResponse = Flatten(ContentsOf(seen))
    /\ pc \in {"read", "lines", "sleep"}
       => fullResponse \o accumulatedChunks = Flatten(ContentsOf(seen))
    /\ (pc = "rejected" /\ seen # <<>>) => failure = "read"

\* C8 witness: a finished call that handled a malformed line between two
\* lines with content.
MalformedLineWitness ==
    /\ pc = "resolved"
    /\ \E i, j, k \in 1..Len(seen) :
          /\ i < j /\ j < k
          /\ HasContent(seen[i])
          /\ Malformed(seen[j])
          /\ HasContent(seen[k])

\* C9 (as claimed): at completion the pending buffer is empty and everything
\* received has been emitted.
FinalFlushEmptiesPending ==
    pc = "resolved"
    => (accumulatedChunks = <<>> /\ shown = Flatten(received))

\* C9 (amended): at completion what remained in the pending buffer, however
\* short, has been handed to onChunk as the last chunk and is part of the
\* returned text, and the emitted text holds every fragment received; the
\* variable itself is not emptied by the final flush.
FinalFlushDeliversPending ==
    pc = "resolved"
    => /\ shown = Flatten(received)
       /\ fullResponse = shown
       /\ accumulatedChunks # <<>>
          => (chunks # <<>> /\ chunks[Len(chunks)] = accumulatedChunks)

\* C9 witness: the stream ended with pending text shorter than the threshold.
FinalFlushWitness ==
    /\ pc = "resolved"
    /\ accumulatedChunks # <<>>
    /\ Len(accumulatedChunks) < FlushThreshold
    /\ Len(chunks) >= 2

\* C10: a call has at most one outcome, has exactly one once it is over,
\* resolves only without a failure, and rejects when a read has failed.
ExactlyOneOutcome ==
    /\ Len(outcomes) <= 1
    /\ pc \in {"resolved", "rejected"} <=> Len(outcomes) = 1
    /\ pc = "resolved" => (outcomes = <<"resolve">> /\ failure = "none")
    /\ pc = "rejected" => (outcomes = <<"reject">> /\ failure # "none")
    /\ failure = "read" => pc = "rejected"

\* C10 witness: a read failed after some text had been emitted.
ReadFailureWitness ==
    /\ failure = "read"
    /\ outcomes = <<"reject">>
    /\ chunks # <<>>

IsPrefix(s, t) == Len(s) <= Len(t) /\ SubSeq(t, 1, Len(s)) = s

\* C11: a call that fails on the HTTP status or for want of a body has
\* produced no fragment: onChunk was never called in it.
NoChunkBeforeConnectionError ==
    failure \in {"http", "nobody"}
    => (chunks = <<>> /\ received = <<>> /\ fullResponse = <<>> /\ pos = 0)

\* C11 witness: the call was rejected for the HTTP status.
ConnectionErrorWitness ==
    pc = "rejected" /\ failure = "http" /\ outcomes = <<"reject">>

\* C12: in every step the text of the call, and the text the consumer builds
\* from the chunks, grow by appending only.
AppendOnly ==
    [][IsPrefix(fullResponse, fullResponse') /\ IsPrefix(shown, shown')]_vars

\* C12 witness: the text has grown twice.
AppendOnlyWitness ==
    /\ Len(updates) >= 2
    /\ updates[1] # updates[2]
    /\ fullResponse = updates[Len(updates)]

\* The last line the loop has handled is a record with finish_reason "stop".
LastSeenIsStop ==
    /\ seen # <<>>
    /\ ~Skipped(seen[Len(seen)])
    /\ JSONparse(stripPrefix(seen[Len(seen)])).ok
    /\ JSONparse(stripPrefix(seen[Len(seen)])).finish_reason = "stop"

\* C18 (as claimed): once a record with finish_reason "stop" has been
\* processed, with content or without, the pending text is empty and what it
\* held has been emitted.
StopAlwaysFlushes ==
    (pc \in {"read", "lines"} /\ LastSeenIsStop)
    => (accumulatedChunks = <<>> /\ Flatten(chunks) = Flatten(received))

\* C19: once the call is over (resolved or rejected) nothing of it changes
\* any more and onChunk is not called again.
TerminalAbsorbing ==
    [][(pc \in {"resolved", "rejected"} \/ outcomes # <<>>)
       => UNCHANGED <<pc, streamVars, textVars, chunks, shown, updates,
                      outcomes, failure>>]_vars

\* C19 witness: the call is over with text still pending.
TerminalWitness ==
    /\ pc = "rejected"
    /\ accumulatedChunks # <<>>
    /\ chunks # <<>>

\* --------------------------------------------------------- C14, C16, C17, C20

\* The messages of the conversation that hold the apology of part_001:172.
Apologies == { i \in 1..Len(messages) : messages[i].content = Apology }

\* The messages of the conversation with the id of the reply being streamed.
Replies == { i \in 1..Len(messages) : messages[i].id = assistantId }

LastUpdate == IF updates = <<>> THEN <<>> ELSE updates[Len(updates)]

\* C14 (as stated, refuted): once the user has left the page during a
\* request, no further chunk is emitted and the call does not resolve.
CancelStopsUpdates ==
    cancelled => (Len(chunks) = chunksAtCancel /\ pc # "resolved")

\* C16: the value a call resolves with is the concatenation of the chunks it
\* gave to onChunk, and getCompletionSync returns that same text.
ReturnIsAllChunks ==
    /\ pc = "resolved" => fullResponse = Flatten(chunks)
    /\ caller = "sync" => result = Flatten(chunks)
    /\ syncReturned # <<>> =>
          (pc = "resolved" /\ syncReturned = <<fullResponse>>)

\* C16 witness: getCompletionSync has returned a text of several chunks.
ReturnWitness ==
    /\ syncReturned # <<>>
    /\ Len(chunks) >= 2
    /\ accumulatedChunks # <<>>

\* C17: the request is issued at most once in a call, a failed call has
\* exactly one outcome, and sendMessage reports it with exactly one apology.
NoRetry ==
    /\ fetches <= 1
    /\ failure # "none" => (pc = "rejected" /\ outcomes = <<"reject">>)
    /\ sendPc = "done" /\ caller = "sendMessage" /\ pc = "rejected" /\ mounted
          => Cardinality(Apologies) = 1
    /\ pc # "rejected" => Apologies = {}

\* C17 witness: the one request failed and sendMessage has reported it.
NoRetryWitness ==
    /\ failure = "network"
    /\ fetches = 1
    /\ sendPc = "done"
    /\ Cardinality(Apologies) = 1

\* C20: when sendMessage has handled a failure, the reply still holds the
\* text of the last update (nothing when there was none), and the apology is
\* a further message after it.
FailureKeepsText ==
    (sendPc = "done" /\ caller = "sendMessage" /\ pc = "rejected" /\ mounted)
    => /\ Replies # {}
       /\ \A i \in Replies \ Apologies :
             /\ messages[i].content = LastUpdate
             /\ messages[i].content = shown
       /\ \E j \in Apologies : \A i \in Replies \ Apologies : i < j
       /\ Replies \ Apologies # {}

\* C20 witness: a read failed after an update, and the failure was handled.
FailureKeepsTextWitness ==
    /\ sendPc = "done"
    /\ failure = "read"
    /\ updates # <<>>
    /\ \E i \in Replies : messages[i].content = LastUpdate
    /\ Apologies # {}

\* ------------------------------------------------------------------ C13, C15

\* The text pending, the text so far and the chunks emitted by a call that
\* runs alone, after the lines ls.
RECURSIVE AloneLines(_, _)
AloneLines(ls, st) ==
    IF ls = <<>> THEN st
    ELSE LET e == LineEffect(Head(ls), st.acc)
         IN AloneLines(Tail(ls),
                IF e.flush
                THEN [acc |-> <<>>, full |-> st.full \o e.acc,
                      chunks |-> Append(st.chunks, e.acc)]
                ELSE [st EXCEPT !.acc = e.acc])

\* The same after reads of the sizes cuts from the bytes w, buf being the
\* buffer before them.
RECURSIVE AloneReads(_, _, _, _)
AloneReads(w, cuts, buf, st) ==
    IF cuts = <<>> THEN st
    ELSE LET parts == split(buf \o decode(SubSeq(w, 1, Head(cuts))))
         IN AloneReads(SubSeq(w, Head(cuts) + 1, Len(w)), Tail(cuts),
                       parts[Len(parts)],
                       AloneLines(SubSeq(parts, 1, Len(parts) - 1), st))

AloneStart == [acc |-> <<>>, full |-> <<>>, chunks |-> <<>>]

\* The chunks and the returned text of a call that runs alone to its end.
AloneRun(w, cuts) ==
    LET st == AloneReads(w, cuts, <<>>, AloneStart)
    IN [chunks |-> IF st.acc # <<>> THEN Append(st.chunks, st.acc)
                   ELSE st.chunks,
        returned |-> st.full \o st.acc]

\* the cumulative texts a consumer builds from the chunks
Snapshots(chs) == [i \in 1..Len(chs) |-> Flatten(SubSeq(chs, 1, i))]

\* C13: two runs over the same bytes, read in pieces of the same sizes, give
\* the same sequence of cumulative texts and return the same text.
ReplayDeterminism ==
    (/\ \A c \in Calls : two.pc[c] = "resolved"
     /\ two.wire[1] = two.wire[2]
     /\ two.cuts[1] = two.cuts[2])
    => /\ Snapshots(two.chunks[1]) = Snapshots(two.chunks[2])
       /\ two.returned[1] = two.returned[2]

\* C13 witness: both runs are over, had the same input, and emitted twice.
ReplayWitness ==
    /\ \A c \in Calls : two.pc[c] = "resolved"
    /\ two.wire[1] = two.wire[2]
    /\ two.cuts[1] = two.cuts[2]
    /\ Len(two.cuts[1]) >= 2
    /\ Len(two.chunks[1]) >= 2

\* C15: whatever the other call does meanwhile, a call has emitted no chunk
\* that it would not emit alone, and once resolved it has emitted the chunks
\* and returned the text of a run alone.
CallsIndependent ==
    \A c \in Calls :
        /\ IsPrefix(two.chunks[c], AloneRun(two.wire[c], two.cuts[c]).chunks)
        /\ two.pc[c] = "resolved" =>
              /\ two.chunks[c] = AloneRun(two.wire[c], two.cuts[c]).chunks
              /\ two.returned[c]
                    = << AloneRun(two.wire[c], two.cuts[c]).returned >>

\* C15 witness: call 1 resolved with two chunks while call 2, on another
\* stream, was in its for loop with text pending.
IndependentWitness ==
    /\ two.pc[1] = "resolved"
    /\ Len(two.chunks[1]) >= 2
    /\ two.pc[2] \in {"lines", "sleep"}
    /\ two.frames[2].accumulatedChunks # <<>>
    /\ two.wire[1] # two.wire[2]

\* ------------------------------------------------------------------ C21, C22

\* C21: an update inside the loop is delivered only at the end of a sleep
\* that began when the flush became due; the sleep delivers exactly the text
\* that was pending when it began; and during it the emitted text followed
\* by the pending text is the received text, nothing lost or out of order.
PacedFlush ==
    [][/\ (pc' = "sleep" /\ pc # "sleep")
          => /\ pc = "lines"
             /\ chunks' = chunks
             /\ Len(received') = Len(received) + 1
             /\ accumulatedChunks'
                  = accumulatedChunks \o received'[Len(received')]
       /\ (Len(chunks') > Len(chunks) /\ pc' # "resolved")
          => /\ pc = "sleep"
             /\ chunks' = Append(chunks, accumulatedChunks)
             /\ received' = received
       /\ pc = "sleep"
          => /\ Flatten(chunks) \o accumulatedChunks = Flatten(received)
             /\ pc' # "sleep" => chunks' = Append(chunks, accumulatedChunks)
      ]_vars

\* C21 witness: a flush made for the threshold is over, one fragment after
\* the other having filled the pending text, and the loop goes on.
PacedFlushWitness ==
    /\ Len(chunks) = 1
    /\ Len(chunks[1]) >= FlushThreshold
    /\ Len(received) >= 2
    /\ accumulatedChunks = <<>>
    /\ pc = "lines"

\* the line the for loop is at holds a record without content
AtEmptyRecord ==
    /\ pc = "lines"
    /\ LET trimmedLine == trim(Head(lines))
       IN /\ ~Skipped(trimmedLine)
          /\ JSONparse(stripPrefix(trimmedLine)).ok
          /\ JSONparse(stripPrefix(trimmedLine)).content = <<>>

\* C22: handling a record without content calls onChunk for nothing, starts
\* no flush, and leaves the pending text, the text so far and the fragments
\* received as they are.
EmptyContentIgnored ==
    [][AtEmptyRecord
       => /\ UNCHANGED <<chunks, shown, updates, messages, accumulatedChunks,
                         fullResponse, received>>
          /\ pc' # "sleep"
      ]_vars

\* C22 witness: the record handled last had no content, and text is pending.
EmptyContentWitness ==
    /\ seen # <<>>
    /\ ~Skipped(seen[Len(seen)])
    /\ JSONparse(stripPrefix(seen[Len(seen)])).ok
    /\ JSONparse(stripPrefix(seen[Len(seen)])).content = <<>>
    /\ accumulatedChunks # <<>>
    /\ pc \in {"read", "lines"}

\* -------------------------------------------------------------- C23 .. C27

\* The welcome messages of a list.
Welcomes(msgs) == { i \in 1..Len(msgs) : msgs[i].id.prefix = "welcome-" }

\* C23: when sendMessage starts a request, the list it sends ends with the
\* user message just submitted, pushed once; every other entry is, in order,
\* a message that was in the conversation before the submit, so neither the
\* new user message again nor the placeholder of the reply.
ApiListRight ==
    [][requests' > requests
       => LET n == Len(messages)
              m == Len(apiMessages')
          IN /\ m >= 1
             /\ apiMessages'[m]
                  = [role |-> "user", content |-> Question, from |-> 0]
             /\ messages'[n + 1].role = "user"
             /\ messages'[n + 2].id = assistantId'
             /\ \A k \in 1..(m - 1) :
                   /\ apiMessages'[k].from \in 1..n
                   /\ apiMessages'[k].role = messages[apiMessages'[k].from].role
                   /\ apiMessages'[k].content
                        = messages[apiMessages'[k].from].content
                   /\ k > 1 => apiMessages'[k - 1].from < apiMessages'[k].from
      ]_vars

\* C23 witness: a second request was sent with the conversation before it.
ApiListWitness ==
    /\ requests = 2
    /\ Len(apiMessages) >= 4
    /\ sendPc = "awaiting"

\* C24 (as stated, refuted): whenever the list gets shorter, which only
\* clearMessages does, it then holds exactly one welcome message.
ClearRestoresWelcome ==
    [][Len(messages') < Len(messages)
       => Cardinality(Welcomes(messages')) = 1]_vars

\* C25: once the call of a sendMessage has settled, isLoading gets back to
\* false; sendMessage ends with isLoading false, having appended exactly
\* the apology when the call threw and nothing when it resolved.
SendSettles ==
    /\ (sendPc = "awaiting" /\ pc \in {"resolved", "rejected"})
          ~> (sendPc = "done" /\ ~isLoading)
    /\ [][(sendPc = "awaiting" /\ sendPc' = "done")
           => /\ isLoading
              /\ ~isLoading'
              /\ pc \in {"resolved", "rejected"}
              /\ messages' =
                    IF pc = "rejected"
                    THEN Append(messages,
                                Message(Id("", now), "assistant", Apology))
                    ELSE messages
          ]_vars

\* C25 witness: a request that failed is over, with its one apology.
SendSettlesWitness ==
    /\ sendPc = "done"
    /\ pc = "rejected"
    /\ requests = 1
    /\ ~isLoading
    /\ Cardinality(Apologies) = 1

\* C26: a request starts only when none is in flight, and a submit made
\* while one is in flight changes neither the messages nor the requests.
OneRequestAtATime ==
    [][/\ sendPc = "awaiting" => isLoading
       /\ requests' > requests
          => (~isLoading /\ sendPc # "awaiting" /\ isLoading')
       /\ ignored' > ignored
          => (isLoading
              /\ UNCHANGED <<messages, requests, apiMessages, pc, sendPc,
                             fetches, isLoading>>)
      ]_vars

\* C26 witness: a submit was made during the one request, which resolved.
OneRequestWitness ==
    /\ ignored >= 1
    /\ requests = 1
    /\ sendPc = "done"
    /\ pc = "resolved"
    /\ Len(messages) = 3

\* C27 (as stated, refuted): the messages of the list have distinct ids.
DistinctIds ==
    \A i, j \in 1..Len(messages) :
        i # j => messages[i].id # messages[j].id

\* -------------------------------------------------------------- C28 .. C30

\* C28: the /dashboard route renders its children exactly when the store is
\* not loading and has a user; not loading and without a user it redirects
\* to /login; loading it shows the spinner.
DashboardGuarded ==
    LET rendered == PrivateRoute(auth.user, auth.loading)
    IN /\ rendered = "children" <=> (~auth.loading /\ auth.user # "null")
       /\ (~auth.loading /\ auth.user = "null") => rendered = "login"
       /\ auth.loading => rendered = "spinner"

\* C28 witness: after a sign-in the dashboard is rendered.
DashboardWitness ==
    /\ auth.last = "signInOk"
    /\ PrivateRoute(auth.user, auth.loading) = "children"

\* C29 (as stated, refuted): a user that is set is cleared only by a signOut
\* that went through or by an auth-state-change event without a session.
UserKeptUntilSignOut ==
    [][(auth.user # "null" /\ auth'.user = "null")
       => auth'.last \in {"signOutOk", "eventNoSession"}]_vars

\* C30: a store action that gets an error throws and leaves user and
\* loading as they were; signOut changes the user only when it went
\* through, and then clears it; signUp changes neither user nor loading.
ErrorsLeaveStore ==
    [][/\ auth'.last = "threw"
          => /\ auth'.user = auth.user
             /\ auth'.loading = auth.loading
             /\ \E op \in {"signIn", "signUp", "signOut"} :
                   auth[op] = "pending" /\ auth'[op] = "idle"
       /\ (auth.signOut = "pending" /\ auth'.signOut = "idle")
          => /\ auth'.last \in {"threw", "signOutOk"}
             /\ auth'.last = "signOutOk"
                  => (auth'.user = "null" /\ auth'.loading = auth.loading)
       /\ (auth.signUp = "pending" /\ auth'.signUp = "idle")
          => (auth'.user = auth.user /\ auth'.loading = auth.loading)
      ]_vars

\* C30 witness: an action threw while a user was signed in, and the user is
\* still there.
ErrorsLeaveStoreWitness ==
    /\ auth.last = "threw"
    /\ auth.user # "null"
    /\ ~auth.loading

====
